---- MODULE Spec2Model ----
(***************************************************************************)
(* Model of the Up -> YNAB webhook synchroniser (src/src/up.ts).            *)
(*                                                                         *)
(* The process handles webhook invocations concurrently: JavaScript runs   *)
(* each invocation without interruption from one await to the next, so an  *)
(* action of the model is the code an invocation runs between two awaits   *)
(* (or a branch of it), and the position `pc` names the remote call the    *)
(* invocation is suspended on.  A remote call is handled by the remote     *)
(* ledger when it is issued; what it answers is stored in the invocation   *)
(* and consumed by the action that resumes it, so a response can be stale  *)
(* by the time it is applied.  Whether the response is a success is known  *)
(* when the invocation resumes.  The fetch of the source transaction reads *)
(* nothing the process shares, and is taken together with the arrival of   *)
(* the request.  A finished invocation is observed in position "done" and  *)
(* then leaves its slot.  The model follows one lifetime of the process:   *)
(* both caches start empty and nothing but the code below changes them.    *)
(* The update that webhook does not await is applied by the ledger when it *)
(* is issued.                                                              *)
(*                                                                         *)
(* Dates are whole days (integers); the time of day inside createdAt is    *)
(* not modelled.  Identifiers of source transactions are sequences of      *)
(* characters so that the dash removal of the import id is computed.       *)
(***************************************************************************)
EXTENDS Integers, Sequences, FiniteSets, TLC

\* ---------------------------------------------------------------- bounds
MaxDeliveries == 2       \* webhook requests delivered in one behaviour
Today == 6              \* the day `new Date()` yields in todayOffset

\* ------------------------------------------------------ program constants
WindowDays == 4         \* todayOffset(-4)
AmountFactor == 10      \* valueInBaseUnits * 10

Procs == {1, 2}         \* invocations that can be in flight together

\* ------------------------------------------------- the source ledger (Up)
T1 == <<"t", "-", "1">>
T2 == <<"t", "-", "2">>
T3 == <<"t", "-", "3">>
T4 == <<"t", "-", "4">>
UpTransactionIds == {T1, T2, T3, T4}
UpAccountIds == {"A", "J"}

\* class Account: ownershipType of each source account.
UpAccount(id) ==
    IF id = "J" THEN [id |-> id, ownershipType |-> "JOINT"]
                ELSE [id |-> id, ownershipType |-> "INDIVIDUAL"]

\* class Transaction: the immutable attributes of each source transaction.
\* T1 is a card purchase; T2 (debit) and T3 (credit) are the two
\* sides of one internal transfer from the joint account J to the account A;
\* T4 is the credit side, on J, of another transfer.  All are held at
\* first.
UpTransaction(id) ==
    CASE id = T1 -> [accountId |-> "A", createdAt |-> Today - 1,
                     valueInBaseUnits |-> -15, transferAccount |-> "",
                     description |-> "Coffee"]
      [] id = T2 -> [accountId |-> "J", createdAt |-> Today - 5,
                     valueInBaseUnits |-> -5, transferAccount |-> "A",
                     description |-> "Transfer to A"]
      [] id = T3 -> [accountId |-> "A", createdAt |-> Today - 5,
                     valueInBaseUnits |-> 5, transferAccount |-> "J",
                     description |-> "Transfer from J"]
      [] id = T4 -> [accountId |-> "J", createdAt |-> Today - 2,
                     valueInBaseUnits |-> 7, transferAccount |-> "A",
                     description |-> "Transfer from A"]

\* ------------------------------------------------------------ the request
Selectors == {"primary", "secondary", "tertiary"}
EventTypes == {"TRANSACTION_CREATED", "TRANSACTION_SETTLED",
               "TRANSACTION_DELETED", "PING"}
NoSignature == <<>>

\* upApis[account].webhookSecret (process.env UP_*_WEBHOOK).
webhookSecret(account) ==
    IF account = "primary" THEN "secret-p" ELSE "secret-s"

\* createHmac("sha256", secret).update(body).digest("hex"): the digest is
\* kept symbolic, a value determined by the secret and the body.
createHmac(secret, body) == <<secret, body>>

\* A variant that lets a request without a signature header through; C8
\* tells it from the code.
validateWebhookSignatureOptional(secret, body, signature) ==
    IF secret = "" THEN FALSE
    ELSE signature = NoSignature \/ createHmac(secret, body) = signature

\* Api.validateWebhookSignature (up), lines 174-180.
validateWebhookSignature(secret, body, signature) ==
    IF signature = NoSignature \/ secret = ""
    THEN FALSE
    ELSE createHmac(secret, body) = signature

\* The headers a request can carry: none, a digest under a key that is not
\* the connection's, or the digest Up computes.  Up signs an event with the
\* secret of a connection whose user holds the account: the primary user
\* holds both accounts, the secondary user the joint account only.
Signatures(body) ==
    {NoSignature, createHmac("forged", body),
     createHmac(webhookSecret("primary"), body)}
    \cup (IF UpAccount(UpTransaction(body[2]).accountId).ownershipType = "JOINT"
          THEN {createHmac(webhookSecret("secondary"), body)} ELSE {})

\* `up:${upTransaction.id.replaceAll("-", "")}`
RECURSIVE replaceAllDashes(_)
replaceAllDashes(s) ==
    IF s = <<>> THEN <<>>
    ELSE IF Head(s) = "-" THEN replaceAllDashes(Tail(s))
         ELSE <<Head(s)>> \o replaceAllDashes(Tail(s))

importIdOf(id) == <<"u", "p", ":">> \o replaceAllDashes(id)

ImportIds == {importIdOf(id) : id \in UpTransactionIds}

\* ------------------------------------------------------ payloads and calls
\* type Transaction (ynab): `fields` are the properties that are set.
EmptyPayload ==
    [fields |-> {}, amount |-> 0, cleared |-> "", account_id |-> 0,
     date |-> 0, import_id |-> <<>>, memo |-> "", payee_id |-> 0,
     payee_name |-> ""]

IsEmptyProperty(data, f) ==
    CASE f = "cleared" -> data.cleared = ""
      [] f = "memo" -> data.memo = ""
      [] f = "payee_name" -> data.payee_name = ""
      [] OTHER -> FALSE

\* Object.entries(data).filter(([, value]) => value != null && value !== "")
removeEmptyProperties(data) ==
    [data EXCEPT !.fields = {f \in data.fields : ~IsEmptyProperty(data, f)}]

\* One remote call as the history of an invocation records it.
\* `failed` becomes TRUE when the call is known to have got a non-success
\* response.
Call(op, via, key, target, payload, awaited, failed) ==
    [op |-> op, via |-> via, key |-> key, target |-> target,
     payload |-> payload, awaited |-> awaited, failed |-> failed]

\* ------------------------------------------------------------- the caches
NoDate == -1
NoIds == [id |-> 0, transfer_transaction_id |-> 0]
NoAccount == [id |-> 0, payeeId |-> 0]

\* class YnabCache: new YnabCache<TransactionIds>() / <Account>()
EmptyTransactionCache ==
    [map |-> [i \in ImportIds |-> NoIds], lastKnowledgeOfServer |-> 0,
     sinceDate |-> NoDate]
EmptyAccountCache ==
    [map |-> [a \in UpAccountIds |-> NoAccount], lastKnowledgeOfServer |-> 0]

\* A response of a remote call, as the suspended invocation will read it.
EmptyResponse ==
    [ok |-> FALSE, server_knowledge |-> 0, transactions |-> {},
     accounts |-> {}, id |-> 0, transfer_transaction_id |-> 0,
     import_id |-> <<>>]

VARIABLES
    upStatus,           \* source ledger: status of each source transaction
    ynabTransactions,   \* destination ledger: its transactions, by id
    ynabAccounts,       \* destination ledger: its accounts, by id
    serverKnowledge,    \* destination ledger: its change counter
    transactions,       \* ynabApi.transactions (cache and cursor)
    accounts,           \* ynabApi.accounts (cache and cursor)
    inv,                \* the invocations: position, locals and history
    delivered,          \* invocations received so far
    completed,          \* source transactions a delivery has reconciled
    env,                \* process.env: WEBHOOK_URL and the webhook secrets
    upWebhooks,         \* source ledger: the webhooks of each connection
    setup               \* the invocation of init: position and locals

vars == <<upStatus, ynabTransactions, ynabAccounts, serverKnowledge,
          transactions, accounts, inv, delivered, completed,
          env, upWebhooks, setup>>

\* What the init endpoint works on; the webhook endpoint leaves it alone.
registration == <<env, upWebhooks, setup>>

\* What the webhook endpoint works on; the init endpoint leaves it alone.
reconciliation == <<upStatus, ynabTransactions, ynabAccounts, serverKnowledge,
                    transactions, accounts, inv, delivered, completed>>

ledger == <<ynabTransactions, ynabAccounts, serverKnowledge>>

Ledger ==
    [txs |-> ynabTransactions, accts |-> ynabAccounts, sk |-> serverKnowledge]

SetLedger(L) ==
    /\ ynabTransactions' = L.txs
    /\ ynabAccounts' = L.accts
    /\ serverKnowledge' = L.sk


\* ------------------------------------------- the destination ledger (YNAB)
\* The ledger is the remote collaborator behind ynabApi.fetch: it numbers
\* its records in creation order, stamps every change with its change
\* counter, and answers a listing with the records changed after the
\* caller's last_knowledge_of_server (transactions: dated since_date or
\* later) together with its current counter.

transfer_payee_id(accountId) == accountId + 100

\* GET transactions?since_date=..&last_knowledge_of_server=..
ListTransactionsResponse(since, lk) ==
         [EmptyResponse EXCEPT
            !.ok = TRUE,
            !.server_knowledge = serverKnowledge,
            !.transactions =
               {[id |-> i,
                 import_id |-> ynabTransactions[i].import_id,
                 transfer_transaction_id |->
                     ynabTransactions[i].transfer_transaction_id] :
                i \in {j \in 1..Len(ynabTransactions) :
                          /\ ynabTransactions[j].date >= since
                          /\ ynabTransactions[j].k > lk}}]

\* GET accounts?last_knowledge_of_server=..
ListAccountsResponse(lk) ==
         [EmptyResponse EXCEPT
            !.ok = TRUE,
            !.server_knowledge = serverKnowledge,
            !.accounts =
               {[id |-> i, note |-> ynabAccounts[i].note,
                 transfer_payee_id |-> transfer_payee_id(i)] :
                i \in {j \in 1..Len(ynabAccounts) : ynabAccounts[j].k > lk}}]

\* PUT transactions/{id}: only the supplied fields change; of those the
\* ledger state of the model keeps the clearing state.  L is the ledger:
\* its transactions (txs), accounts (accts) and change counter (sk).
PutTransaction(L, id, payload) ==
    IF /\ id \in 1..Len(L.txs)
       /\ "cleared" \in payload.fields
       /\ L.txs[id].cleared # payload.cleared
    THEN [L EXCEPT !.txs = [L.txs EXCEPT ![id].cleared = payload.cleared,
                                         ![id].k = L.sk + 1],
                   !.sk = L.sk + 1]
    ELSE L

\* POST transactions: the new record takes the next id.  A payee_id that is
\* an account's transfer payee makes the record one side of a transfer; the
\* ledger pairs it with a counterpart record at once (link) or leaves it
\* unpaired, which the client logs as a warning.
PostTransaction(L, payload, link) ==
    LET n == Len(L.txs) + 1
        k == L.sk + 1
        main == [import_id |-> payload.import_id, date |-> payload.date,
                 cleared |-> payload.cleared, payee_id |-> payload.payee_id,
                 transfer_transaction_id |-> IF link THEN n + 1 ELSE 0,
                 k |-> k]
        other == [import_id |-> <<>>, date |-> payload.date,
                  cleared |-> payload.cleared, payee_id |-> 0,
                  transfer_transaction_id |-> n, k |-> k]
    IN [L EXCEPT !.txs = IF link THEN L.txs \o <<main, other>>
                                   ELSE Append(L.txs, main),
                 !.sk = k]

\* POST accounts: the new account takes the next id and keeps the note.
PostAccount(L, note) ==
    [L EXCEPT !.accts = Append(L.accts, [note |-> note, k |-> L.sk + 1]),
              !.sk = L.sk + 1]

\* The ledger pairs an unpaired transfer record with a counterpart later.
PairTransaction(L, i) ==
    LET n == Len(L.txs) + 1
        k == L.sk + 1
        other == [import_id |-> <<>>, date |-> L.txs[i].date,
                  cleared |-> L.txs[i].cleared, payee_id |-> 0,
                  transfer_transaction_id |-> i, k |-> k]
    IN [L EXCEPT !.txs = Append([L.txs EXCEPT
                                    ![i].transfer_transaction_id = n,
                                    ![i].k = k], other),
                 !.sk = k]

\* ---------------------------------------------------------- cache refresh
Max(S) == CHOOSE x \in S : \A y \in S : y <= x

\* A variant of the refresh that moves the cursor and records no entry; C14
\* tells it from the code.
ApplyTransactionsCursorOnly(cache, data, syncFrom) ==
    [map |-> cache.map,
     lastKnowledgeOfServer |-> data.server_knowledge,
     sinceDate |-> syncFrom]

\* for (const transaction of data.transactions.filter(x => x.import_id))
\*     cache.set(transaction.import_id, ids)
\* cache.lastKnowledgeOfServer = data.server_knowledge; cache.sinceDate = syncFrom
\* (the listing is in id order, so of two records with one import id the
\* later one stays in the map)
ApplyTransactions(cache, data, syncFrom) ==
    [map |-> [i \in ImportIds |->
                LET es == {e \in data.transactions :
                              e.import_id # <<>> /\ e.import_id = i}
                IN IF es = {} THEN cache.map[i]
                   ELSE LET last == CHOOSE e \in es :
                                       e.id = Max({x.id : x \in es})
                        IN [id |-> last.id,
                            transfer_transaction_id |->
                                last.transfer_transaction_id]],
     lastKnowledgeOfServer |-> data.server_knowledge,
     sinceDate |-> syncFrom]

\* account.note?.match(/upId:([a-f0-9-]{36}\b)/i): the note either carries
\* the tag followed by a source account id or it does not.
NoteMatch(note) ==
    IF Len(note) = 2 /\ note[1] = "upId:" THEN note[2] ELSE ""

\* for (const account of data.accounts) { ... cache.set(match[1], ...) }
\* cache.lastKnowledgeOfServer = data.server_knowledge
ApplyAccounts(cache, data) ==
    [map |-> [a \in UpAccountIds |->
                LET es == {e \in data.accounts :
                              NoteMatch(e.note) # "" /\ NoteMatch(e.note) = a}
                IN IF es = {} THEN cache.map[a]
                   ELSE LET last == CHOOSE e \in es :
                                       e.id = Max({x.id : x \in es})
                        IN [id |-> last.id, payeeId |-> last.transfer_payee_id]],
     lastKnowledgeOfServer |-> data.server_knowledge]

\* A variant that keeps the change token when it widens the window; C13
\* tells it from the code.
SyncQueryKeepingToken(cache, transactionDate) ==
    LET syncFrom == IF cache.sinceDate = NoDate THEN Today - WindowDays
                    ELSE cache.sinceDate
    IN [since_date |-> IF transactionDate < syncFrom THEN transactionDate
                       ELSE syncFrom,
        last_knowledge_of_server |-> cache.lastKnowledgeOfServer]

\* let syncFrom = cache.sinceDate; if (!syncFrom) syncFrom = todayOffset(-4)
\* if (transactionDate && transactionDate < syncFrom) { widen; knowledge = 0 }
SyncQuery(cache, transactionDate) ==
    LET syncFrom == IF cache.sinceDate = NoDate THEN Today - WindowDays
                    ELSE cache.sinceDate
    IN IF transactionDate < syncFrom
       THEN [since_date |-> transactionDate, last_knowledge_of_server |-> 0]
       ELSE [since_date |-> syncFrom,
             last_knowledge_of_server |-> cache.lastKnowledgeOfServer]

\* ---------------------------------------------------------- an invocation
\* The record of an invocation: its position, the request, the locals of
\* webhook, the response of the call it waits for (resp), the calls it has
\* issued (calls), and three facts about the moment it arrived: `later` (an
\* earlier delivery for the same source transaction had completed),
\* `linkedBefore` (the ledger held a pending record for the source
\* transaction paired with a counterpart) and `found` (with no other
\* invocation in flight, what the ledger held for the event: its
\* "transaction", the account of its "owner", the account of its "transfer"
\* counterpart).
NewInvocation ==
    [pc |-> "idle", account |-> "", signature |-> NoSignature,
     eventType |-> "", txId |-> <<>>, status |-> 0, body |-> "",
     isSettled |-> FALSE, importId |-> <<>>, syncFrom |-> NoDate,
     resp |-> EmptyResponse, ynabTransactionId |-> NoIds, role |-> "",
     ynabAccount |-> NoAccount, payee_id |-> 0, calls |-> <<>>,
     later |-> FALSE, linkedBefore |-> FALSE, found |-> {}]

\* The connections to the source ledger (upApis, lines 189-192).
Connections == {"primary", "secondary"}

\* The invocation of init: its position, the request (account,
\* replaceExisting), the webhooks still to delete (matchingWebhooks from
\* the loop's position on), the answer, and for the record the webhooks of
\* the connection when the request arrived (before), the remote calls made
\* (calls) and the requests served so far (served).
NewSetup ==
    [pc |-> "idle", account |-> "", replaceExisting |-> FALSE,
     matchingWebhooks |-> <<>>, status |-> 0, body |-> <<>>,
     before |-> {}, calls |-> <<>>, served |-> 0]

\* return { status, body }
Finish(r, status, body) ==
    [r EXCEPT !.pc = "done", !.status = status, !.body = body,
              !.resp = EmptyResponse]

\* An exception nothing catches: the invocation fails (the host answers 500).
Throw(r) == Finish(r, 500, "")

Issue(r, pc, resp, call) ==
    [r EXCEPT !.pc = pc, !.resp = resp, !.calls = Append(@, call)]

\* The response of a call that changes the ledger: `ok` says the ledger
\* carried the request out.
OkResponse(ok) == [EmptyResponse EXCEPT !.ok = ok]

\* The awaited call (the last one issued) got its response.
Answer(r, ok) == [r EXCEPT !.calls[Len(r.calls)].failed = ~ok]

\* The calls of an invocation that reconcile: lookup refresh, update, create.
ReconcileOps == {"listTransactions", "updateTransaction", "createTransaction"}
Ops(r) == {r.calls[i].op : i \in DOMAIN r.calls}
Reconciled(r) == Ops(r) \cap ReconcileOps # {}

\* The source transactions whose delivery ran through reconciliation to 200.
Completion(r) ==
    IF r.pc = "done" /\ r.status = 200
       /\ Ops(r) \cap {"updateTransaction", "createTransaction"} # {}
    THEN {r.txId} ELSE {}

Init ==
    /\ upStatus = [t \in UpTransactionIds |-> "HELD"]
    /\ ynabTransactions = <<>>
    /\ ynabAccounts = <<>>
    /\ serverKnowledge = 1       \* the budget's own creation was a change
    /\ transactions = EmptyTransactionCache
    /\ accounts = EmptyAccountCache
    /\ inv = [p \in Procs |-> NewInvocation]
    /\ delivered = 0
    /\ completed = {}
    /\ env = [WEBHOOK_URL |-> TRUE, secrets |-> {"primary", "secondary"}]
    /\ upWebhooks = [c \in Connections |-> {}]
    /\ setup = NewSetup


\* ------------------------------------------------------------- the webhook
\* Each operator below is the code an invocation runs from one point to the
\* next await; it yields the outcomes the remote side allows, each the
\* invocation's record (rec) and the ledger (L) after the calls issued.

\* A variant whose update also rewrites the memo; C1 tells it from the code.
updatePayloadWithMemo(upTransaction, isSettled) ==
    [EmptyPayload EXCEPT
        !.fields = {"amount", "cleared", "memo"},
        !.amount = upTransaction.valueInBaseUnits * AmountFactor,
        !.cleared = IF isSettled THEN "cleared" ELSE "uncleared",
        !.memo = "hh:mm"]

\* webhook, lines 252-255: the record an update of a known transaction sends.
updatePayload(upTransaction, isSettled) ==
    [EmptyPayload EXCEPT
        !.fields = {"amount", "cleared"},
        !.amount = upTransaction.valueInBaseUnits * AmountFactor,
        !.cleared = IF isSettled THEN "cleared" ELSE "uncleared"]

\* webhook, line 291: the record that clears the other side of a transfer.
clearPayload ==
    [EmptyPayload EXCEPT !.fields = {"cleared"}, !.cleared = "cleared"]

\* A variant that clears the counterpart of a pending transfer too; C6
\* tells it from the code.
shouldClearOtherPending(ynabTransactionId, isSettled) ==
    ynabTransactionId.transfer_transaction_id # 0

\* webhook, line 289
shouldClearOther(ynabTransactionId, isSettled) ==
    ynabTransactionId.transfer_transaction_id # 0 /\ isSettled

\* Api.updateTransaction, lines 581-584, as far as the request: the payload
\* is stripped of empty properties and PUT; the ledger applies it if it
\* accepts the request (ok).  A call that is not awaited has its outcome
\* recorded at once, since nothing will read the response.
updateTransaction(r, L, id, transaction, awaited, ok) ==
    LET payload == removeEmptyProperties(transaction) IN
    [rec |-> [r EXCEPT !.calls = Append(@,
                 Call("updateTransaction", "ynab", "", id, payload,
                      awaited, (~awaited) /\ ~ok))],
     L |-> IF ok THEN PutTransaction(L, id, payload) ELSE L]

\* webhook, lines 289-297: with the identity in hand, a settled transfer
\* clears its counterpart and waits for that update; anything else is done.
propagate(r, L) ==
    IF shouldClearOther(r.ynabTransactionId, r.isSettled)
    THEN {LET u == updateTransaction(r, L,
                      r.ynabTransactionId.transfer_transaction_id,
                      clearPayload, TRUE, ok)
          IN [rec |-> [u.rec EXCEPT !.pc = "clearOther",
                                    !.resp = OkResponse(ok)],
              L |-> u.L] : ok \in BOOLEAN}
    ELSE {[rec |-> Finish(r, 200, ""), L |-> L]}

\* webhook, lines 251-257 and 289-292: the import id is known; the update
\* is sent without waiting for its response and the code goes on.
updateExisting(r, L) ==
    UNION {LET u == updateTransaction(r, L, r.ynabTransactionId.id,
                        updatePayload(UpTransaction(r.txId), r.isSettled),
                        FALSE, ok)
           IN propagate(u.rec, u.L) : ok \in BOOLEAN}

\* A variant that submits every first sighting as cleared; C11 tells it
\* from the code.
createPayloadCleared(r) ==
    LET upTransaction == UpTransaction(r.txId) IN
    [fields |-> {"amount", "cleared", "account_id", "date", "import_id",
                 "memo", "payee_name"}
                \cup (IF upTransaction.transferAccount # ""
                      THEN {"payee_id"} ELSE {}),
     amount |-> upTransaction.valueInBaseUnits * AmountFactor,
     cleared |-> "cleared",
     account_id |-> r.ynabAccount.id,
     date |-> upTransaction.createdAt,
     import_id |-> r.importId,
     memo |-> "hh:mm",
     payee_id |-> IF upTransaction.transferAccount # "" THEN r.payee_id ELSE 0,
     payee_name |-> upTransaction.description]

\* webhook, lines 270-282: the record a first sighting submits.  The memo
\* (time of day, message, foreign amount) is kept as one opaque text.
createPayload(r) ==
    LET upTransaction == UpTransaction(r.txId) IN
    [fields |-> {"amount", "cleared", "account_id", "date", "import_id",
                 "memo", "payee_name"}
                \cup (IF upTransaction.transferAccount # ""
                      THEN {"payee_id"} ELSE {}),
     amount |-> upTransaction.valueInBaseUnits * AmountFactor,
     cleared |-> IF r.isSettled THEN "cleared" ELSE "uncleared",
     account_id |-> r.ynabAccount.id,
     date |-> upTransaction.createdAt,
     import_id |-> r.importId,
     memo |-> "hh:mm",
     payee_id |-> IF upTransaction.transferAccount # "" THEN r.payee_id ELSE 0,
     payee_name |-> upTransaction.description]

\* A variant that reads the cache once more before it creates, and updates
\* what another invocation created in the meantime; C10 tells it from the
\* code.
createTransactionUnlessCached(r, L, transaction) ==
    IF transactions.map[transaction.import_id].id # 0
    THEN updateExisting([r EXCEPT !.ynabTransactionId =
                            transactions.map[transaction.import_id]], L)
    ELSE {[rec |-> Issue(r, "createTransaction",
                         [EmptyResponse EXCEPT
                             !.ok = TRUE, !.id = Len(L.txs) + 1,
                             !.import_id = transaction.import_id],
                         Call("createTransaction", "ynab", "", 0, transaction,
                              TRUE, FALSE)),
           L |-> PostTransaction(L, transaction, FALSE)]}

\* webhook, lines 283-284, and Api.createTransaction, lines 566-568: the
\* POST is issued; the ledger creates the record (commit) and, for a
\* transfer payee, pairs it with a counterpart (link), or refuses.
createTransaction(r, L, transaction) ==
    LET n == Len(L.txs) + 1 IN
    {LET paired == commit /\ link /\ "payee_id" \in transaction.fields IN
     [rec |-> Issue(r, "createTransaction",
                    [EmptyResponse EXCEPT
                        !.ok = commit, !.id = n,
                        !.import_id = transaction.import_id,
                        !.transfer_transaction_id =
                            IF paired THEN n + 1 ELSE 0],
                    Call("createTransaction", "ynab", "", 0, transaction,
                         TRUE, FALSE)),
      L |-> IF commit THEN PostTransaction(L, transaction, paired) ELSE L]
     : commit \in BOOLEAN, link \in BOOLEAN}

\* createYnabAccount and Api.createAccount, lines 194-197 and 547-557: the
\* POST is issued; the ledger creates the account (commit) or refuses.
createYnabAccount(r, L, upAccountId) ==
    {[rec |-> Issue(r, "createAccount",
                    [EmptyResponse EXCEPT !.ok = commit,
                                          !.id = Len(L.accts) + 1],
                    Call("createAccount", "ynab", upAccountId, 0, EmptyPayload,
                         TRUE, FALSE)),
      L |-> IF commit THEN PostAccount(L, <<"upId:", upAccountId>>) ELSE L]
     : commit \in BOOLEAN}

\* Api.getAccount (ynab), lines 531-535: the account listing is issued (the
\* call records the source account as key and the change token as target).
listAccounts(r, role, cache, upAccountId) ==
    Issue([r EXCEPT !.role = role], "listAccounts",
          ListAccountsResponse(cache.lastKnowledgeOfServer),
          Call("listAccounts", "ynab", upAccountId,
               cache.lastKnowledgeOfServer, EmptyPayload, TRUE, FALSE))

\* getYnabTransferAccountPayeeId, line 212, and webhook, lines 280-284: the
\* counterpart's destination account gives the payee id; the record is
\* submitted.
gotTransferAccount(r, L, account) ==
    LET r1 == [r EXCEPT !.payee_id = account.payeeId, !.role = "",
                        !.resp = EmptyResponse]
    IN createTransaction(r1, L, createPayload(r1))

\* webhook, lines 263-284, with getYnabTransferAccountPayeeId, lines 201-203,
\* and Api.getAccount, lines 528-530: the owner's destination account is
\* known; a transfer looks the counterpart's account up (cache is the
\* account cache), anything else submits the record.
gotOwnerAccount(r, L, cache, account) ==
    LET upTransaction == UpTransaction(r.txId)
        r1 == [r EXCEPT !.ynabAccount = account, !.role = "",
                        !.resp = EmptyResponse]
    IN IF upTransaction.transferAccount # ""
       THEN IF cache.map[upTransaction.transferAccount].id # 0
            THEN gotTransferAccount(r1, L,
                     cache.map[upTransaction.transferAccount])
            ELSE {[rec |-> listAccounts(r1, "transfer", cache,
                                        upTransaction.transferAccount),
                   L |-> L]}
       ELSE createTransaction(r1, L, createPayload(r1))

\* webhook, lines 251-262, with Api.getAccount, lines 528-530: an import id
\* the ledger knows is updated; a first sighting looks up the owner's
\* destination account.
haveIds(r, L, cache) ==
    LET upAccountId == UpTransaction(r.txId).accountId IN
    IF r.ynabTransactionId.id # 0 THEN updateExisting(r, L)
    ELSE IF cache.map[upAccountId].id # 0
    THEN gotOwnerAccount(r, L, cache, cache.map[upAccountId])
    ELSE {[rec |-> listAccounts(r, "owner", cache, upAccountId), L |-> L]}

\* A variant that lists before every lookup, of a cached key too; C19 tells
\* it from the code.
getTransactionFromImportIdAlwaysRefresh(r, L, importId, transactionDate) ==
    LET cache == transactions
        query == SyncQuery(cache, transactionDate)
    IN {[rec |-> Issue([r EXCEPT !.importId = importId,
                                 !.syncFrom = query.since_date],
                       "listTransactions",
                       ListTransactionsResponse(query.since_date,
                           query.last_knowledge_of_server),
                       Call("listTransactions", "ynab", "",
                            query.last_knowledge_of_server,
                            [EmptyPayload EXCEPT !.date = query.since_date],
                            TRUE, FALSE)),
         L |-> L]}

\* Api.getTransactionFromImportId, lines 478-496 and 507: a key the cache
\* has is answered from it; a key it lacks issues the listing query (the
\* call records since_date as its payload's date and the change token as
\* target).
getTransactionFromImportId(r, L, importId, transactionDate) ==
    LET cache == transactions IN
    IF cache.map[importId].id # 0
    THEN haveIds([r EXCEPT !.importId = importId,
                           !.ynabTransactionId = cache.map[importId]],
                 L, accounts)
    ELSE LET query == SyncQuery(cache, transactionDate) IN
        {[rec |-> Issue([r EXCEPT !.importId = importId,
                                  !.syncFrom = query.since_date],
                        "listTransactions",
                        ListTransactionsResponse(query.since_date,
                            query.last_knowledge_of_server),
                        Call("listTransactions", "ynab", "",
                             query.last_knowledge_of_server,
                             [EmptyPayload EXCEPT !.date = query.since_date],
                             TRUE, FALSE)),
          L |-> L]}

\* A variant that skips no side of a transfer; C15 tells it from the code.
afterGetTransactionNoSkip(r, settled) ==
    LET upTransaction == UpTransaction(r.txId) IN
    Issue([r EXCEPT !.isSettled = settled], "getAccount", EmptyResponse,
          Call("getAccount", r.account, upTransaction.accountId, 0,
               EmptyPayload, TRUE, FALSE))

\* A variant that skips the debit side of a transfer instead of the credit
\* side; C3 tells it from the code.
afterGetTransactionSkipDebit(r, settled) ==
    LET upTransaction == UpTransaction(r.txId) IN
    IF upTransaction.transferAccount # ""
       /\ upTransaction.valueInBaseUnits < 0
    THEN Finish(r, 200, "")
    ELSE Issue([r EXCEPT !.isSettled = settled], "getAccount", EmptyResponse,
               Call("getAccount", r.account, upTransaction.accountId, 0,
                    EmptyPayload, TRUE, FALSE))

\* webhook, lines 235-242: the source transaction arrived; the credit side
\* of an internal transfer is skipped, anything else fetches its account.
afterGetTransaction(r, settled) ==
    LET upTransaction == UpTransaction(r.txId) IN
    IF upTransaction.transferAccount # ""
       /\ upTransaction.valueInBaseUnits > 0
    THEN Finish(r, 200, "")
    ELSE Issue([r EXCEPT !.isSettled = settled], "getAccount", EmptyResponse,
               Call("getAccount", r.account, upTransaction.accountId, 0,
                    EmptyPayload, TRUE, FALSE))

\* webhook, lines 215-235: a request arrives; the selector and the signature
\* are checked, then the event type; a transaction event fetches the source
\* transaction (settled: the status it reports if the fetch succeeds).
\* The event type is not read again after line 234 and is dropped from the
\* invocation's record, in the signed body as well.
webhookStart(r, settled) ==
    LET body == <<r.eventType, r.txId>> IN
    IF r.account # "primary" /\ r.account # "secondary"
    THEN {Finish(r, 403, "Invalid account")}
    ELSE IF ~validateWebhookSignature(webhookSecret(r.account), body,
                                      r.signature)
    THEN {Finish(r, 403, "Invalid signature")}
    ELSE IF r.eventType = "TRANSACTION_CREATED"
            \/ r.eventType = "TRANSACTION_SETTLED"
    THEN {LET r1 == [r EXCEPT
                       !.signature = IF r.signature = NoSignature
                                     THEN NoSignature
                                     ELSE <<r.signature[1], <<"", r.txId>>>>,
                       !.eventType = "",
                       !.calls = <<Call("getTransaction", r.account, "", 0,
                                        EmptyPayload, TRUE, ~ok)>>]
          IN IF ok THEN afterGetTransaction(r1, settled) ELSE Throw(r1)
          : ok \in BOOLEAN}
    ELSE {Finish(r, 200, "")}

\* A finished invocation leaves before anything else happens: nothing else
\* reads its record, so no behaviour of the rest is lost.
Observed == \A p \in Procs : inv[p].pc # "done"

\* What the destination ledger holds for a source transaction: a record
\* with its import id, an account tagged with its owning account, an account
\* tagged with its counterpart account.
Held(id) ==
    (IF \E i \in 1..Len(ynabTransactions) :
           ynabTransactions[i].import_id = importIdOf(id)
     THEN {"transaction"} ELSE {})
    \cup (IF \E i \in 1..Len(ynabAccounts) :
                NoteMatch(ynabAccounts[i].note) = UpTransaction(id).accountId
          THEN {"owner"} ELSE {})
    \cup (IF \E i \in 1..Len(ynabAccounts) :
                NoteMatch(ynabAccounts[i].note) = UpTransaction(id).transferAccount
          THEN {"transfer"} ELSE {})

\* The slot a new invocation takes: the lowest free one.
FreeSlot(p) ==
    /\ inv[p].pc = "idle"
    /\ \A q \in Procs : q < p => inv[q].pc # "idle"

Deliver(p) ==
    /\ Observed
    /\ FreeSlot(p)
    /\ delivered < MaxDeliveries
    /\ \E account \in Selectors, eventType \in EventTypes,
          id \in UpTransactionIds :
         \E signature \in Signatures(<<eventType, id>>) :
          \E rec \in webhookStart(
                    [NewInvocation EXCEPT
                        !.account = account, !.signature = signature,
                        !.eventType = eventType, !.txId = id,
                        !.later = id \in completed,
                        !.found = IF \A q \in Procs : inv[q].pc = "idle"
                                  THEN Held(id) ELSE {},
                        !.linkedBefore =
                            \E i \in 1..Len(ynabTransactions) :
                               /\ ynabTransactions[i].import_id = importIdOf(id)
                               /\ ynabTransactions[i].cleared = "uncleared"
                               /\ ynabTransactions[i].transfer_transaction_id # 0],
                    upStatus[id] = "SETTLED") :
            inv' = [inv EXCEPT ![p] = rec]
    /\ delivered' = delivered + 1
    /\ UNCHANGED <<upStatus, ledger, transactions, accounts, completed,
                 registration>>

\* A variant without the joint-account rule; C4 tells it from the code.
afterGetAccountAnyOwner(r, L) ==
    getTransactionFromImportId(r, L, importIdOf(r.txId),
                               UpTransaction(r.txId).createdAt)

\* webhook, lines 242-250: the owning account arrived; a joint account's
\* event on the secondary connection is skipped, anything else is looked up
\* by its import id.
afterGetAccount(r, L) ==
    LET upTransaction == UpTransaction(r.txId)
        upAccount == UpAccount(upTransaction.accountId)
    IN IF upAccount.ownershipType = "JOINT" /\ r.account = "secondary"
       THEN {[rec |-> Finish(r, 200, ""), L |-> L]}
       ELSE getTransactionFromImportId(r, L, importIdOf(r.txId),
                                       upTransaction.createdAt)

GetAccountReturn(p) ==
    /\ Observed
    /\ inv[p].pc = "getAccount"
    /\ \E ok \in BOOLEAN :
          \E out \in (IF ok THEN afterGetAccount(Answer(inv[p], TRUE), Ledger)
                      ELSE {[rec |-> Throw(Answer(inv[p], FALSE)),
                             L |-> Ledger]}) :
             /\ inv' = [inv EXCEPT ![p] = out.rec]
             /\ SetLedger(out.L)
    /\ UNCHANGED <<upStatus, transactions, accounts, delivered, completed,
                 registration>>

\* Api.getTransactionFromImportId, lines 496-507: the listing arrived; its
\* entries and cursor go into the cache and the key is read again.
ListTransactionsReturn(p) ==
    /\ Observed
    /\ inv[p].pc = "listTransactions"
    /\ \E ok \in BOOLEAN :
         LET r == Answer(inv[p], ok) IN
         IF ~ok
         THEN /\ inv' = [inv EXCEPT ![p] = Throw(r)]
              /\ UNCHANGED <<transactions, ledger>>
         ELSE /\ transactions' =
                    ApplyTransactions(transactions, r.resp, r.syncFrom)
              /\ \E out \in haveIds(
                        [r EXCEPT !.resp = EmptyResponse,
                                  !.ynabTransactionId =
                                      transactions'.map[r.importId]],
                        Ledger, accounts) :
                    /\ inv' = [inv EXCEPT ![p] = out.rec]
                    /\ SetLedger(out.L)
    /\ UNCHANGED <<upStatus, accounts, delivered, completed, registration>>

\* The source account a destination-account lookup is about.
wantedAccount(r) ==
    IF r.role = "owner" THEN UpTransaction(r.txId).accountId
    ELSE UpTransaction(r.txId).transferAccount

\* Api.getAccount, line 544, then webhook, lines 260-261 (owner), or
\* getYnabTransferAccountPayeeId, lines 203-206 (counterpart): an account
\* the refreshed cache has is used; one still unknown is created, for a
\* counterpart after fetching it from Up through the primary connection.
afterListAccounts(r, L, cache) ==
    LET found == cache.map[wantedAccount(r)] IN
    IF r.role = "owner"
    THEN IF found.id # 0 THEN gotOwnerAccount(r, L, cache, found)
         ELSE createYnabAccount(r, L, wantedAccount(r))
    ELSE IF found.id # 0 THEN gotTransferAccount(r, L, found)
         ELSE {[rec |-> Issue(r, "upPrimary", EmptyResponse,
                              Call("getAccount", "primary", wantedAccount(r), 0,
                                   EmptyPayload, TRUE, FALSE)),
                L |-> L]}

\* Api.getAccount, lines 535-544: the account listing arrived and is applied.
ListAccountsReturn(p) ==
    /\ Observed
    /\ inv[p].pc = "listAccounts"
    /\ \E ok \in BOOLEAN :
         LET r == Answer(inv[p], ok) IN
         IF ~ok
         THEN /\ inv' = [inv EXCEPT ![p] = Throw(r)]
              /\ UNCHANGED <<accounts, ledger>>
         ELSE /\ accounts' = ApplyAccounts(accounts, r.resp)
              /\ \E out \in afterListAccounts(r, Ledger, accounts') :
                    /\ inv' = [inv EXCEPT ![p] = out.rec]
                    /\ SetLedger(out.L)
    /\ UNCHANGED <<upStatus, transactions, delivered, completed, registration>>

\* Api.createAccount, lines 558-563, then webhook, line 261, or
\* getYnabTransferAccountPayeeId, lines 210-212.
afterCreateAccount(r, L, cache, account) ==
    IF r.role = "owner" THEN gotOwnerAccount(r, L, cache, account)
    ELSE gotTransferAccount(r, L, account)

\* Api.createAccount, lines 557-563: the created account goes into the
\* cache.  A request the ledger refused fails; one it carried out can still
\* come back as a failure.
CreateAccountReturn(p) ==
    /\ Observed
    /\ inv[p].pc = "createAccount"
    /\ \E ok \in (IF inv[p].resp.ok THEN BOOLEAN ELSE {FALSE}) :
         LET r == Answer(inv[p], ok)
             account == [id |-> r.resp.id,
                         payeeId |-> transfer_payee_id(r.resp.id)]
         IN IF ~ok
            THEN /\ inv' = [inv EXCEPT ![p] = Throw(r)]
                 /\ UNCHANGED <<accounts, ledger>>
            ELSE /\ accounts' =
                       [accounts EXCEPT !.map[wantedAccount(r)] = account]
                 /\ \E out \in afterCreateAccount(r, Ledger, accounts',
                                                   account) :
                       /\ inv' = [inv EXCEPT ![p] = out.rec]
                       /\ SetLedger(out.L)
    /\ UNCHANGED <<upStatus, transactions, delivered, completed, registration>>

\* A variant that gives up when the primary connection fails; C20 tells it
\* from the code.
afterUpPrimaryNoFallback(r, L, ok) ==
    IF ok THEN createYnabAccount(r, L, wantedAccount(r))
    ELSE {[rec |-> Throw(r), L |-> L]}

\* getYnabTransferAccountPayeeId, lines 205-210: the fetch through the
\* primary connection; its failure is caught and the secondary one is tried.
afterUpPrimary(r, L, ok) ==
    IF ok THEN createYnabAccount(r, L, wantedAccount(r))
    ELSE {[rec |-> Issue(r, "upSecondary", EmptyResponse,
                         Call("getAccount", "secondary", wantedAccount(r), 0,
                              EmptyPayload, TRUE, FALSE)),
           L |-> L]}

UpPrimaryReturn(p) ==
    /\ Observed
    /\ inv[p].pc = "upPrimary"
    /\ \E ok \in BOOLEAN :
          \E out \in afterUpPrimary(Answer(inv[p], ok), Ledger, ok) :
          /\ inv' = [inv EXCEPT ![p] = out.rec]
          /\ SetLedger(out.L)
    /\ UNCHANGED <<upStatus, transactions, accounts, delivered, completed,
                 registration>>

\* getYnabTransferAccountPayeeId, lines 208-210: the fallback's failure is
\* not caught.
afterUpSecondary(r, L, ok) ==
    IF ok THEN createYnabAccount(r, L, wantedAccount(r))
    ELSE {[rec |-> Throw(r), L |-> L]}

UpSecondaryReturn(p) ==
    /\ Observed
    /\ inv[p].pc = "upSecondary"
    /\ \E ok \in BOOLEAN :
          \E out \in afterUpSecondary(Answer(inv[p], ok), Ledger, ok) :
          /\ inv' = [inv EXCEPT ![p] = out.rec]
          /\ SetLedger(out.L)
    /\ UNCHANGED <<upStatus, transactions, accounts, delivered, completed,
                 registration>>

\* Api.createTransaction, lines 569-578: the identity in the response goes
\* into the cache under the import id the ledger echoes.
cacheCreated(cache, data) ==
    IF data.import_id # <<>>
    THEN [cache EXCEPT !.map[data.import_id] =
             [id |-> data.id,
              transfer_transaction_id |-> data.transfer_transaction_id]]
    ELSE cache

\* Api.createTransaction, lines 568-579, then webhook, lines 284-292.
CreateTransactionReturn(p) ==
    /\ Observed
    /\ inv[p].pc = "createTransaction"
    /\ \E ok \in (IF inv[p].resp.ok THEN BOOLEAN ELSE {FALSE}) :
         LET r == Answer(inv[p], ok) IN
         IF ~ok
         THEN /\ inv' = [inv EXCEPT ![p] = Throw(r)]
              /\ UNCHANGED <<transactions, ledger>>
         ELSE /\ transactions' = cacheCreated(transactions, r.resp)
              /\ \E out \in propagate(
                         [r EXCEPT !.ynabTransactionId =
                              [id |-> r.resp.id,
                               transfer_transaction_id |->
                                   r.resp.transfer_transaction_id]],
                         Ledger) :
                    /\ inv' = [inv EXCEPT ![p] = out.rec]
                    /\ SetLedger(out.L)
    /\ UNCHANGED <<upStatus, accounts, delivered, completed, registration>>

\* webhook, lines 291-297: the clearing update of the counterpart returned.
afterClearOther(r) ==
    IF r.resp.ok THEN Finish(Answer(r, TRUE), 200, "")
    ELSE Throw(Answer(r, FALSE))

ClearOtherReturn(p) ==
    /\ Observed
    /\ inv[p].pc = "clearOther"
    /\ inv' = [inv EXCEPT ![p] = afterClearOther(inv[p])]
    /\ UNCHANGED <<upStatus, ledger, transactions, accounts, delivered,
                   completed, registration>>

\* The response has been sent: the invocation is over and its slot is free.
Respond(p) ==
    /\ inv[p].pc = "done"
    /\ inv' = [inv EXCEPT ![p] = NewInvocation]
    /\ completed' = completed \cup Completion(inv[p])
    /\ UNCHANGED <<upStatus, ledger, transactions, accounts, delivered,
                 registration>>

\* ----------------------------------------------------------- environment
\* The bank settles the held transactions, all in one batch.
Settle(t) ==
    /\ Observed
    /\ upStatus[t] = "HELD"
    /\ upStatus' = [u \in UpTransactionIds |-> "SETTLED"]
    /\ UNCHANGED <<ledger, transactions, accounts, inv, delivered, completed,
                 registration>>

\* The destination ledger pairs a transfer record it had left unpaired.
LinkCounterpart(i) ==
    /\ Observed
    /\ i \in 1..Len(ynabTransactions)
    /\ ynabTransactions[i].payee_id # 0
    /\ ynabTransactions[i].transfer_transaction_id = 0
    /\ SetLedger(PairTransaction(Ledger, i))
    /\ UNCHANGED <<upStatus, transactions, accounts, inv, delivered, completed,
                 registration>>

Next ==
    \/ \E p \in Procs : Respond(p)
    \/ \E p \in Procs : Deliver(p)
    \/ \E p \in Procs : GetAccountReturn(p)
    \/ \E p \in Procs : ListTransactionsReturn(p)
    \/ \E p \in Procs : ListAccountsReturn(p)
    \/ \E p \in Procs : CreateAccountReturn(p)
    \/ \E p \in Procs : UpPrimaryReturn(p)
    \/ \E p \in Procs : UpSecondaryReturn(p)
    \/ \E p \in Procs : CreateTransactionReturn(p)
    \/ \E p \in Procs : ClearOtherReturn(p)
    \/ \E t \in UpTransactionIds : Settle(t)
    \/ \E i \in 1..Len(ynabTransactions) : LinkCounterpart(i)

Spec == Init /\ [][Next]_vars

\* ------------------------------------------------------ the init endpoint
\* init registers a webhook at the source ledger.  The source ledger keeps
\* the webhooks of each connection, each with an id and a url, marks the
\* ones it deleted, and issues a secret with each webhook it creates.

MaxInits == 2           \* init requests served in one behaviour

\* webhookUrl, lines 322-323: WEBHOOK_URL with the account as parameter.
webhookUrl(account) == <<"WEBHOOK_URL", "account", account>>

\* The urls a webhook of a connection may have: the callback url of either
\* account, or some other url.
Urls == {webhookUrl(c) : c \in Connections} \cup {<<"elsewhere">>}

\* Webhook.secretKey of the webhook the source ledger created under an id.
secretKey(id) == <<"secretKey", id>>

\* The webhooks a connection may have to begin with: ids 1 and 2 point at
\* its own callback url, id 3 at the other account's, id 4 elsewhere.
InitialWebhooks(c) ==
    SUBSET {[id |-> 1, url |-> webhookUrl(c), deleted |-> FALSE],
            [id |-> 2, url |-> webhookUrl(c), deleted |-> FALSE],
            [id |-> 3, url |-> webhookUrl(CHOOSE d \in Connections : d # c),
             deleted |-> FALSE],
            [id |-> 4, url |-> <<"elsewhere">>, deleted |-> FALSE]}

\* GET webhooks: the webhooks of a connection the source ledger lists.
Webhooks(c) == {x \in upWebhooks[c] : ~x.deleted}

\* A remote call of init, and whether it failed.
SetupCall(op, id) == [op |-> op, id |-> id, failed |-> FALSE]

SetupIssue(r, pc, call) == [r EXCEPT !.pc = pc, !.calls = Append(@, call)]

SetupAnswer(r, ok) == [r EXCEPT !.calls[Len(r.calls)].failed = ~ok]

\* return { status, body }
SetupFinish(r, status, body) ==
    [r EXCEPT !.pc = "done", !.status = status, !.body = body,
              !.matchingWebhooks = <<>>]

\* An exception nothing catches: the invocation fails (the host answers 500).
SetupThrow(r) == SetupFinish(r, 500, <<>>)

\* A variant that registers a webhook although the connection's secret is
\* configured; C12 tells it from the code.
initIgnoringSecret(r, environment) ==
    IF r.account # "primary" /\ r.account # "secondary"
    THEN SetupFinish(r, 403, <<"Invalid account">>)
    ELSE IF ~environment.WEBHOOK_URL
    THEN SetupFinish(r, 500, <<"WEBHOOK_URL is missing">>)
    ELSE SetupIssue(r, "getWebhooks", SetupCall("getWebhooks", 0))

\* init, lines 306-326: the selector and the configuration are checked,
\* then the connection's webhooks are listed.
init(r, environment) ==
    IF r.account # "primary" /\ r.account # "secondary"
    THEN SetupFinish(r, 403, <<"Invalid account">>)
    ELSE IF ~environment.WEBHOOK_URL
    THEN SetupFinish(r, 500, <<"WEBHOOK_URL is missing">>)
    ELSE IF r.account \in environment.secrets
    THEN SetupFinish(r, 500, <<"secret is already set">>)
    ELSE SetupIssue(r, "getWebhooks", SetupCall("getWebhooks", 0))

\* The elements of a set of webhooks in the order of their ids.
RECURSIVE InOrder(_)
InOrder(S) ==
    IF S = {} THEN <<>>
    ELSE LET w == CHOOSE x \in S : \A y \in S : x.id <= y.id
         IN <<w>> \o InOrder(S \ {w})

\* init, lines 334-340: the next matching webhook is deleted; with none
\* left the new webhook is requested.
deleteOrCreate(r) ==
    IF r.replaceExisting /\ r.matchingWebhooks # <<>>
    THEN SetupIssue(r, "deleteWebhook",
                    SetupCall("deleteWebhook", Head(r.matchingWebhooks).id))
    ELSE SetupIssue([r EXCEPT !.matchingWebhooks = <<>>], "newWebhook",
                    SetupCall("newWebhook", 0))

\* init, lines 327-340: of the webhooks listed, those with the callback url
\* match; without replaceExisting a match is refused.
afterGetWebhooks(r, webhooks) ==
    LET matching == {x \in webhooks : x.url = webhookUrl(r.account)}
        r1 == [r EXCEPT !.matchingWebhooks = InOrder(matching)]
    IN IF matching # {} /\ ~r.replaceExisting
       THEN SetupFinish(r1, 500,
                   <<"Found existing webhooks using this url">>)
       ELSE deleteOrCreate(r1)

InitRequest ==
    /\ setup.pc = "idle"
    /\ setup.served < MaxInits
    /\ \E account \in Selectors, replaceExisting \in BOOLEAN :
          setup' = init([setup EXCEPT
                            !.account = account,
                            !.replaceExisting = replaceExisting,
                            !.before =
                                IF account \in Connections
                                THEN Webhooks(account) ELSE {}],
                        env)
    /\ UNCHANGED <<env, upWebhooks, reconciliation>>

\* UpApi.getWebhooks, lines 149-155, returned, or failed.
GetWebhooksReturn ==
    /\ setup.pc = "getWebhooks"
    /\ \E ok \in BOOLEAN :
          setup' = IF ok
                   THEN afterGetWebhooks(SetupAnswer(setup, TRUE),
                                         Webhooks(setup.account))
                   ELSE SetupThrow(SetupAnswer(setup, FALSE))
    /\ UNCHANGED <<env, upWebhooks, reconciliation>>

\* UpApi.deleteWebhook, lines 170-172, returned: the source ledger deleted
\* the webhook (commit) or refused; a request it carried out can still come
\* back as a failure.
DeleteWebhookReturn ==
    /\ setup.pc = "deleteWebhook"
    /\ \E commit \in BOOLEAN :
        \E ok \in (IF commit THEN BOOLEAN ELSE {FALSE}) :
          /\ upWebhooks' =
                IF commit
                THEN [upWebhooks EXCEPT ![setup.account] =
                         {[x EXCEPT !.deleted =
                              @ \/ x.id = Head(setup.matchingWebhooks).id] :
                          x \in @}]
                ELSE upWebhooks
          /\ setup' =
                IF ok
                THEN deleteOrCreate(
                         [SetupAnswer(setup, TRUE) EXCEPT
                             !.matchingWebhooks = Tail(@)])
                ELSE SetupThrow(SetupAnswer(setup, FALSE))
    /\ UNCHANGED <<env, reconciliation>>

\* The id the source ledger gives the next webhook of a connection.
NextWebhookId(webhooks) == 1 + Max({0} \cup {x.id : x \in webhooks})

\* UpApi.newWebhook, lines 157-168, returned, then init, lines 341-342: the
\* source ledger created the webhook (commit) or refused; the answer
\* carries the secret of the webhook created.
NewWebhookReturn ==
    /\ setup.pc = "newWebhook"
    /\ \E commit \in BOOLEAN :
        \E ok \in (IF commit THEN BOOLEAN ELSE {FALSE}) :
          LET id == NextWebhookId(upWebhooks[setup.account]) IN
          /\ upWebhooks' =
                IF commit
                THEN [upWebhooks EXCEPT ![setup.account] =
                         @ \cup {[id |-> id,
                                  url |-> webhookUrl(setup.account),
                                  deleted |-> FALSE]}]
                ELSE upWebhooks
          /\ setup' =
                IF ok
                THEN SetupFinish(SetupAnswer(setup, TRUE), 200,
                            <<"Save the secret", secretKey(id)>>)
                ELSE SetupThrow(SetupAnswer(setup, FALSE))
    /\ UNCHANGED <<env, reconciliation>>

\* The host sends the answer; the next request finds a fresh invocation.
InitRespond ==
    /\ setup.pc = "done"
    /\ setup' = [NewSetup EXCEPT !.served = setup.served + 1]
    /\ UNCHANGED <<env, upWebhooks, reconciliation>>

\* The configuration and the webhooks registered when the process starts.
InitEndpointInit ==
    /\ upStatus = [t \in UpTransactionIds |-> "HELD"]
    /\ ynabTransactions = <<>>
    /\ ynabAccounts = <<>>
    /\ serverKnowledge = 1       \* the budget's own creation was a change
    /\ transactions = EmptyTransactionCache
    /\ accounts = EmptyAccountCache
    /\ inv = [p \in Procs |-> NewInvocation]
    /\ delivered = 0
    /\ completed = {}
    /\ env \in [WEBHOOK_URL : BOOLEAN, secrets : SUBSET Connections]
    /\ \E d \in Connections :
          \E W \in InitialWebhooks(d) :
             upWebhooks = [c \in Connections |-> IF c = d THEN W ELSE {}]
    /\ setup = NewSetup

InitEndpointNext ==
    \/ InitRequest
    \/ GetWebhooksReturn
    \/ DeleteWebhookReturn
    \/ NewWebhookReturn
    \/ InitRespond

InitEndpointSpec == InitEndpointInit /\ [][InitEndpointNext]_vars

\* ------------------------------------------------------------- properties
\* The calls of one kind in an invocation's history.
CallsOf(r, op) == {i \in DOMAIN r.calls : r.calls[i].op = op}

\* The invocation has looked its import id up (line 250 was reached).
LookedUp(r) == r.importId # <<>>

IsTransfer(id) == UpTransaction(id).transferAccount # ""
IsCredit(id) == IsTransfer(id) /\ UpTransaction(id).valueInBaseUnits > 0
IsDebit(id) == IsTransfer(id) /\ UpTransaction(id).valueInBaseUnits < 0
IsJoint(id) == UpAccount(UpTransaction(id).accountId).ownershipType = "JOINT"

\* The invocation has answered 200 to a transaction event it fetched.
Answered200(r) == r.pc = "done" /\ r.status = 200 /\ r.calls # <<>>

\* The update an invocation sends to its own destination transaction.
IsOwnUpdate(r, i) ==
    /\ r.calls[i].op = "updateTransaction"
    /\ r.calls[i].target = r.ynabTransactionId.id

\* The update an invocation sends to another destination transaction.
IsCounterpartUpdate(r, i) ==
    /\ r.calls[i].op = "updateTransaction"
    /\ r.calls[i].target # r.ynabTransactionId.id

\* C1: an invocation that arrives after an earlier delivery for the same
\* source transaction completed never issues a create-transaction call; once
\* it has looked the import id up it has resolved it from the cache without
\* a listing and has issued exactly one update of that destination
\* transaction, whose payload carries the amount (value times 10) and the
\* clearing state (cleared iff the source was fetched settled) and no other
\* field.
C1_LaterDeliveryOnlyUpdates ==
    \A p \in Procs :
       LET r == inv[p] IN
       r.pc # "idle" /\ r.later =>
          /\ CallsOf(r, "createTransaction") = {}
          /\ LookedUp(r) =>
                /\ CallsOf(r, "listTransactions") = {}
                /\ r.ynabTransactionId.id # 0
                /\ Cardinality({i \in DOMAIN r.calls : IsOwnUpdate(r, i)}) = 1
                /\ \A i \in DOMAIN r.calls :
                      IsOwnUpdate(r, i) =>
                         /\ r.calls[i].payload.fields = {"amount", "cleared"}
                         /\ r.calls[i].payload.amount =
                               UpTransaction(r.txId).valueInBaseUnits * 10
                         /\ r.calls[i].payload.cleared =
                               (IF r.isSettled THEN "cleared" ELSE "uncleared")

\* A second delivery for the transfer debit, now settled, has answered 200
\* after updating the record the first delivery created while it was held.
C1_Witness ==
    \E p \in Procs :
       /\ inv[p].later /\ inv[p].txId = T2 /\ inv[p].isSettled
       /\ Answered200(inv[p])
       /\ \E i \in DOMAIN inv[p].calls : IsOwnUpdate(inv[p], i)
       /\ \E j \in 1..Len(ynabTransactions) :
             ynabTransactions[j].import_id = importIdOf(T2)

\* C2: once the transaction cache maps an import id to a destination
\* transaction id, no step maps it to another id.
C2_MappingNeverRepointed ==
    [][\A i \in ImportIds :
          transactions.map[i].id # 0 =>
             transactions'.map[i].id = transactions.map[i].id]_vars

\* C3 as stated: of the two sides of a transfer, a side that is fetched and
\* answered with 200 without being reconciled is always the credit side.
C3_SkippedSideIsCredit ==
    \A p \in Procs :
       LET r == inv[p] IN
       Answered200(r) /\ IsTransfer(r.txId) /\ ~Reconciled(r)
          => IsCredit(r.txId)

\* C3: the credit side of a transfer is never reconciled, on either
\* connection, and is answered with 200 once fetched; the debit side that is
\* answered with 200 has been reconciled, except when its account is joint
\* and the event arrived on the secondary connection, where it is skipped
\* with 200 as well.
C3_CreditSkippedDebitUnlessJointSecondary ==
    \A p \in Procs :
       LET r == inv[p] IN
       r.pc # "idle" /\ IsTransfer(r.txId) =>
          /\ IsCredit(r.txId) =>
                /\ ~Reconciled(r)
                /\ Len(r.calls) <= 1
                /\ (r.calls # <<>> /\ ~r.calls[1].failed
                       => r.pc = "done" /\ r.status = 200)
          /\ IsDebit(r.txId) /\ Answered200(r) =>
                (Reconciled(r) <=> ~(IsJoint(r.txId) /\ r.account = "secondary"))

\* The debit side, on the joint account, arrived on the secondary connection
\* and was skipped with 200 after both fetches.
C3_Witness ==
    \E p \in Procs :
       /\ inv[p].txId = T2 /\ inv[p].account = "secondary"
       /\ Answered200(inv[p]) /\ Len(inv[p].calls) = 2
       /\ ~Reconciled(inv[p])

\* C4 as stated: an event of a joint account that arrived on the primary
\* connection, was fetched and answered with 200 has been reconciled.
C4_JointViaPrimaryReconciled ==
    \A p \in Procs :
       LET r == inv[p] IN
       Answered200(r) /\ IsJoint(r.txId) /\ r.account = "primary"
          => Reconciled(r)

\* C4: an event of a joint account that arrived on the secondary connection
\* is never reconciled and, if no fetch failed, is answered with 200; the
\* same event on the primary connection, answered with 200, has been
\* reconciled unless it is the credit side of a transfer, which is skipped
\* on every connection.
C4_JointOnlyViaPrimary ==
    \A p \in Procs :
       LET r == inv[p] IN
       r.pc # "idle" /\ r.calls # <<>> /\ IsJoint(r.txId) =>
          /\ r.account = "secondary" =>
                /\ ~Reconciled(r)
                /\ \A i \in DOMAIN r.calls : r.calls[i].via # "ynab"
                /\ (r.pc = "done" /\ (\A i \in DOMAIN r.calls : ~r.calls[i].failed)
                       => r.status = 200)
          /\ r.account = "primary" /\ Answered200(r) /\ ~IsCredit(r.txId)
                => Reconciled(r)

\* The joint account's debit was skipped on the secondary connection while
\* the ledger holds the record its delivery on the primary one created.
C4_Witness ==
    /\ \E p \in Procs :
          /\ inv[p].txId = T2 /\ inv[p].account = "secondary"
          /\ Answered200(inv[p]) /\ Len(inv[p].calls) = 2
    /\ \E j \in 1..Len(ynabTransactions) :
          ynabTransactions[j].import_id = importIdOf(T2)

\* C5: once set, the window start the transaction cache remembers never
\* moves to a later date.
C5_SinceDateNeverLater ==
    [][transactions.sinceDate # NoDate =>
          /\ transactions'.sinceDate # NoDate
          /\ transactions'.sinceDate <= transactions.sinceDate]_vars

\* C6: once an invocation holds the identity of its destination transaction
\* (from the cache or from the creation response), it has issued an update
\* of another transaction exactly when that identity carries a counterpart
\* id and the source was fetched settled; that update goes to the
\* counterpart id and its payload holds the clearing state "cleared" and no
\* other field.  Without an identity no such update is issued.
C6_CounterpartClearedIffLinkedAndSettled ==
    \A p \in Procs :
       LET r == inv[p]
           others == {i \in DOMAIN r.calls : IsCounterpartUpdate(r, i)}
       IN /\ r.ynabTransactionId.id = 0 => CallsOf(r, "updateTransaction") = {}
          /\ r.ynabTransactionId.id # 0 =>
                /\ Cardinality(others) =
                      (IF r.ynabTransactionId.transfer_transaction_id # 0
                          /\ r.isSettled THEN 1 ELSE 0)
                /\ \A i \in others :
                      /\ r.calls[i].target =
                            r.ynabTransactionId.transfer_transaction_id
                      /\ r.calls[i].payload.fields = {"cleared"}
                      /\ r.calls[i].payload.cleared = "cleared"
                      /\ r.calls[i].awaited

\* A settled transfer debit whose identity carries a counterpart has sent the
\* clearing update to a counterpart the ledger already holds as cleared.
C6_Witness ==
    \E p \in Procs :
       LET r == inv[p] IN
       /\ r.isSettled /\ r.ynabTransactionId.transfer_transaction_id # 0
       /\ \E i \in DOMAIN r.calls : IsCounterpartUpdate(r, i)
       /\ r.ynabTransactionId.transfer_transaction_id
             \in 1..Len(ynabTransactions)
       /\ r.later

\* C7: a delivery for a transfer debit that arrived after the delivery that
\* created it had completed, when the ledger held its pending record paired
\* with a counterpart, and that fetched the source as settled and answered
\* 200, has issued a clearing update for a counterpart.
C7_SettledDebitClearsLinkedCounterpart ==
    \A p \in Procs :
       LET r == inv[p] IN
       Answered200(r) /\ IsDebit(r.txId) /\ r.later /\ r.linkedBefore
          /\ r.isSettled /\ LookedUp(r)
          => \E i \in DOMAIN r.calls :
                /\ r.calls[i].op = "updateTransaction"
                /\ r.calls[i].payload.fields = {"cleared"}

\* The requests the entry checks refuse: an unknown selector, or a signature
\* header that is missing or is not the digest of the body under the
\* connection's secret.
BadSelector(r) == r.account \notin {"primary", "secondary"}
BadSignature(r) ==
    r.signature # createHmac(IF r.account = "primary" THEN "secret-p"
                             ELSE "secret-s", <<r.eventType, r.txId>>)

\* C8: an invocation whose selector or signature is refused is over at once
\* with status 403 and no call issued, the step that received it leaves both
\* caches and the destination ledger as they were, and an unknown selector
\* is reported whatever the signature is.
C8_RefusedRequestIsInert ==
    [][\A p \in Procs :
          LET r == inv'[p] IN
          r.pc # "idle" /\ (BadSelector(r) \/ BadSignature(r)) =>
             /\ r.pc = "done" /\ r.status = 403 /\ r.calls = <<>>
             /\ r.body = (IF BadSelector(r) THEN "Invalid account"
                          ELSE "Invalid signature")
             /\ (inv[p].pc = "idle" =>
                    /\ transactions' = transactions
                    /\ accounts' = accounts
                    /\ ynabTransactions' = ynabTransactions
                    /\ ynabAccounts' = ynabAccounts)]_vars

\* A request with a forged signature is refused while the caches hold
\* entries and another invocation is in flight.
C8_Witness ==
    \E p \in Procs :
       /\ inv[p].pc = "done" /\ inv[p].status = 403
       /\ inv[p].account = "primary" /\ inv[p].signature # NoSignature
       /\ transactions.sinceDate # NoDate
       /\ \E a \in UpAccountIds : accounts.map[a].id # 0
       /\ \E q \in Procs : inv[q].pc \notin {"idle", "done"}

\* C9: an invocation that has answered 200 has no call that got a
\* non-success response.
C9_FailedCallFailsInvocation ==
    \A p \in Procs :
       inv[p].pc = "done" /\ inv[p].status = 200 =>
          \A i \in DOMAIN inv[p].calls : ~inv[p].calls[i].failed

\* The positions of an invocation that has missed its import id and is
\* resolving destination accounts.
AfterMiss == {"listAccounts", "createAccount", "upPrimary", "upSecondary"}

\* C10: an invocation that missed its import id (the refreshed cache lacks
\* it) never looks it up again: whatever another invocation writes to the
\* cache meanwhile, its next steps resolve accounts and issue the create
\* call, or fail.
C10_NoSecondLookupBeforeCreate ==
    [][\A p \in Procs :
          (/\ inv'[p] # inv[p]
           /\ \/ inv[p].pc \in AfterMiss
              \/ /\ inv[p].pc = "listTransactions"
                 /\ transactions'.map[inv[p].importId].id = 0)
          => \/ inv'[p].pc \in AfterMiss \cup {"createTransaction"}
             \/ inv'[p].pc = "done" /\ inv'[p].status = 500]_vars

\* Two invocations for one source transaction both wait for their create
\* call while the cache still lacks the import id, and the ledger has
\* carried out both: it holds two records with that import id.
C10_Witness ==
    /\ \A p \in Procs : inv[p].pc = "createTransaction" /\ inv[p].txId = T1
    /\ transactions.map[importIdOf(T1)].id = 0
    /\ \E i, j \in 1..Len(ynabTransactions) :
          /\ i # j
          /\ ynabTransactions[i].import_id = importIdOf(T1)
          /\ ynabTransactions[j].import_id = importIdOf(T1)

\* ------------------------------------------------------------------- C11
\* The destination account an invocation created for the owner of its
\* source transaction: the positions of the create-account calls for it.
OwnerAccountCreates(r) ==
    {i \in CallsOf(r, "createAccount") :
        r.calls[i].key = UpTransaction(r.txId).accountId}

\* The call at position i has been answered, and answered well.
AnsweredOk(r, i) ==
    /\ ~r.calls[i].failed
    /\ (i < Len(r.calls) \/ r.pc \notin {r.calls[i].op, "upPrimary",
                                         "upSecondary", "getAccount"})

\* C11: a first sighting that is no transfer and whose owning account the
\* ledger does not know yet creates that account first; until the account
\* is created no transaction is submitted, and once it is, exactly one
\* create-transaction call follows, directly, whose record carries the new
\* account's id, the amount in milliunits (value * 10), cleared exactly when
\* the source transaction is settled, the description as payee name and
\* 'up:' plus the dash-less source id as import id.
C11_FirstSightingCreatesAccountThenTransaction ==
    \A p \in Procs :
       LET r == inv[p]
           upTransaction == UpTransaction(r.txId)
       IN (r.txId # <<>> /\ ~IsTransfer(r.txId)) =>
            \A i \in OwnerAccountCreates(r) :
               /\ \A j \in CallsOf(r, "createTransaction") : j > i
               /\ OwnerAccountCreates(r) = {i}
               /\ IF AnsweredOk(r, i)
                  THEN /\ CallsOf(r, "createTransaction") = {i + 1}
                       /\ LET t == r.calls[i + 1].payload IN
                            /\ t.account_id = r.ynabAccount.id
                            /\ t.account_id \in 1..Len(ynabAccounts)
                            /\ ynabAccounts[t.account_id].note =
                                  <<"upId:", upTransaction.accountId>>
                            /\ t.amount = upTransaction.valueInBaseUnits * 10
                            /\ (t.cleared = "cleared") = r.isSettled
                            /\ t.cleared \in {"cleared", "uncleared"}
                            /\ t.payee_name = upTransaction.description
                            /\ "payee_name" \in t.fields
                            /\ t.import_id =
                                  <<"u", "p", ":">> \o
                                  SelectSeq(r.txId, LAMBDA c : c # "-")
                  ELSE CallsOf(r, "createTransaction") = {}

\* A settled and a held first sighting each created the account and then
\* submitted the transaction.
C11_Witness ==
    \E p \in Procs :
       /\ inv[p].txId = T1
       /\ inv[p].pc = "done" /\ inv[p].status = 200
       /\ OwnerAccountCreates(inv[p]) # {}
       /\ CallsOf(inv[p], "createTransaction") # {}
       /\ ~inv[p].isSettled

\* ------------------------------------------------------------------- C12
\* The webhooks of the request's connection that init created, and those
\* it deleted, since the request arrived.
CreatedWebhooks ==
    {x \in Webhooks(setup.account) :
        \A y \in setup.before : y.id # x.id}

DeletedWebhooks ==
    {x \in setup.before : x \notin Webhooks(setup.account)}

\* The webhooks with the callback url when the request arrived.
MatchingBefore ==
    {x \in setup.before : x.url = webhookUrl(setup.account)}

ConfigRefused ==
    ~env.WEBHOOK_URL \/ setup.account \in env.secrets

RemoteFailed == \E i \in DOMAIN setup.calls : setup.calls[i].failed

InitAnswered == setup.pc = "done" /\ setup.account \in Connections

\* C12 as stated: with a valid selector init answers 500 when the callback
\* url is not configured or the connection's secret is configured, and in
\* every other case creates a webhook and answers 200 with its secret; it
\* deletes only with replaceExisting and only webhooks with the callback
\* url; a 500 creates nothing.  (Read for requests whose remote calls all
\* succeed.)
C12_OnlyConfigurationRefuses ==
    (InitAnswered /\ ~RemoteFailed) =>
       /\ IF ConfigRefused THEN setup.status = 500
          ELSE /\ setup.status = 200
               /\ \E x \in CreatedWebhooks :
                     setup.body = <<"Save the secret", secretKey(x.id)>>
       /\ DeletedWebhooks # {} => setup.replaceExisting
       /\ \A x \in DeletedWebhooks : x.url = webhookUrl(setup.account)
       /\ setup.status = 500 => CreatedWebhooks = {}

\* C12, amended: with a valid selector init answers 500, calling nothing,
\* when the callback url is not configured or the connection's secret is
\* configured; it answers 500 too, creating and deleting nothing, when
\* webhooks with the callback url exist and replaceExisting is not set; in
\* every other case, if no remote call fails, it deletes the webhooks with
\* the callback url (with replaceExisting), creates one webhook with that
\* url and answers 200 with its secret.  Whatever happens it deletes only
\* with replaceExisting, only webhooks with the callback url, and a 500 it
\* returns itself comes with no webhook created or deleted.
C12_RefusesExistingWebhooksToo ==
    InitAnswered =>
       /\ ConfigRefused =>
             /\ setup.status = 500 /\ setup.body # <<>>
             /\ setup.calls = <<>>
       /\ (~ConfigRefused /\ ~RemoteFailed
             /\ MatchingBefore # {} /\ ~setup.replaceExisting) =>
             setup.status = 500 /\ setup.body # <<>>
       /\ (~ConfigRefused /\ ~RemoteFailed
             /\ (MatchingBefore = {} \/ setup.replaceExisting)) =>
             /\ setup.status = 200
             /\ \E x \in CreatedWebhooks :
                   /\ CreatedWebhooks = {x}
                   /\ x.url = webhookUrl(setup.account)
                   /\ setup.body = <<"Save the secret", secretKey(x.id)>>
             /\ DeletedWebhooks =
                   IF setup.replaceExisting THEN MatchingBefore ELSE {}
       /\ RemoteFailed => setup.status = 500 /\ setup.body = <<>>
       /\ DeletedWebhooks \subseteq MatchingBefore
       /\ DeletedWebhooks # {} => setup.replaceExisting
       /\ (setup.status = 500 /\ setup.body # <<>>) =>
             CreatedWebhooks = {} /\ DeletedWebhooks = {}

\* A configured request without replaceExisting found a webhook with the
\* callback url and was refused.
C12_Witness ==
    /\ InitAnswered /\ ~ConfigRefused /\ ~RemoteFailed
    /\ MatchingBefore # {} /\ ~setup.replaceExisting
    /\ setup.status = 500

\* ------------------------------------------------------------------- C13
\* The last call an invocation issued.
LastCall(r) == r.calls[Len(r.calls)]

\* C13: a lookup that misses the transaction cache lists from the
\* remembered window start, or from today - 4 when none is remembered; a
\* transaction dated before that start moves the start to its date and the
\* change token to 0, any other keeps the remembered token; when the
\* listing has been applied the cursor is the token the server returned
\* and the window start the listing used.
C13_ListingWindowAndCursor ==
    [][\A p \in Procs :
         /\ (inv[p].pc # "listTransactions"
             /\ inv'[p].pc = "listTransactions") =>
               LET call == LastCall(inv'[p])
                   date == UpTransaction(inv'[p].txId).createdAt
                   start == IF transactions.sinceDate = NoDate
                            THEN Today - 4 ELSE transactions.sinceDate
               IN /\ call.op = "listTransactions"
                  /\ transactions.map[inv'[p].importId].id = 0
                  /\ IF date < start
                     THEN call.payload.date = date /\ call.target = 0
                     ELSE /\ call.payload.date = start
                          /\ call.target = transactions.lastKnowledgeOfServer
         /\ (inv[p].pc = "listTransactions"
             /\ inv'[p].pc # "listTransactions"
             /\ ~inv'[p].calls[Len(inv[p].calls)].failed) =>
               /\ transactions'.lastKnowledgeOfServer =
                     inv[p].resp.server_knowledge
               /\ transactions'.sinceDate = LastCall(inv[p]).payload.date
    ]_vars

\* A listing widened to the date of an older transaction was applied when
\* the ledger had changes to report.
C13_Witness ==
    /\ transactions.sinceDate = Today - 5
    /\ transactions.lastKnowledgeOfServer > 0

\* ------------------------------------------------------------------- C14
\* The create-account calls of an invocation for a source account.
AccountCreates(r, upAccountId) ==
    {i \in CallsOf(r, "createAccount") : r.calls[i].key = upAccountId}

\* C14: a delivery that arrives while no other invocation is in flight,
\* for an event whose transaction or account the ledger already holds
\* (committed by an earlier invocation, whether or not that invocation got
\* to record it in the cache), issues no create call for what is held: the
\* transaction is found, through a refresh when the cache lacks it, and
\* updated; a held account is found and not created again.
C14_CommittedRecordIsNotCreatedAgain ==
    \A p \in Procs :
       LET r == inv[p]
           upTransaction == UpTransaction(r.txId)
       IN /\ "transaction" \in r.found =>
               /\ CallsOf(r, "createTransaction") = {}
               /\ CallsOf(r, "createAccount") = {}
               /\ (r.pc = "done" /\ r.status = 200 /\ LookedUp(r)) =>
                     /\ r.ynabTransactionId.id \in 1..Len(ynabTransactions)
                     /\ ynabTransactions[r.ynabTransactionId.id].import_id
                           = r.importId
                     /\ \E i \in DOMAIN r.calls : IsOwnUpdate(r, i)
          /\ "owner" \in r.found =>
               AccountCreates(r, upTransaction.accountId) = {}
          /\ "transfer" \in r.found =>
               /\ AccountCreates(r, upTransaction.transferAccount) = {}
               /\ \A i \in CallsOf(r, "getAccount") :
                     r.calls[i].key # upTransaction.transferAccount

\* The ledger held the transaction, the cache did not: the delivery
\* listed, found it and updated it.
C14_Witness ==
    \E p \in Procs :
       /\ "transaction" \in inv[p].found
       /\ CallsOf(inv[p], "listTransactions") # {}
       /\ inv[p].pc = "done" /\ inv[p].status = 200
       /\ \E i \in DOMAIN inv[p].calls : IsOwnUpdate(inv[p], i)

\* ------------------------------------------------------------------- C15
\* The request passed the selector and signature checks and its event is
\* one the webhook ignores: an event type other than created or settled
\* (transaction deleted among them), the credit side of a transfer once the
\* source transaction is fetched, or an event of a joint account on the
\* secondary connection once its account is fetched.
Ignored(r) ==
    /\ r.pc # "idle" /\ ~BadSelector(r) /\ ~BadSignature(r)
    /\ \/ r.eventType \notin {"", "TRANSACTION_CREATED", "TRANSACTION_SETTLED"}
       \/ /\ Len(r.calls) >= 1 /\ ~r.calls[1].failed
          /\ IsCredit(r.txId)
       \/ /\ Len(r.calls) >= 2 /\ ~r.calls[2].failed /\ r.pc # "getAccount"
          /\ IsJoint(r.txId) /\ r.account = "secondary"

\* C15: the step that classifies an event as ignored answers it with 200;
\* the invocation has issued no call to the destination ledger, and the
\* step leaves the entries and cursors of both caches, and the ledger, as
\* they were.
C15_IgnoredEventIsInert ==
    [][\A p \in Procs :
         (inv'[p] # inv[p] /\ Ignored(inv'[p])) =>
            /\ inv'[p].pc = "done"
            /\ inv'[p].status = 200
            /\ \A i \in DOMAIN inv'[p].calls : inv'[p].calls[i].via # "ynab"
            /\ transactions' = transactions
            /\ accounts' = accounts
            /\ ledger' = ledger
    ]_vars

\* With entries in both caches, a debit on the joint account arrived on
\* the secondary connection and was answered 200.
C15_Witness ==
    \E p \in Procs :
       /\ Ignored(inv[p])
       /\ IsDebit(inv[p].txId) /\ inv[p].account = "secondary"
       /\ inv[p].pc = "done" /\ inv[p].status = 200
       /\ \E i \in ImportIds : transactions.map[i].id # 0
       /\ \E a \in UpAccountIds : accounts.map[a].id # 0

\* ------------------------------------------------------------------- C16
\* C16 as stated: the record a first sighting of a transfer submits
\* carries the transfer payee id of the counterpart's destination account
\* and no payee name; the record of any other first sighting carries the
\* payee name and no payee id.
C16_PayeeIdOrPayeeName ==
    \A p \in Procs :
       \A i \in CallsOf(inv[p], "createTransaction") :
          LET t == inv[p].calls[i].payload IN
          IF IsTransfer(inv[p].txId)
          THEN /\ "payee_id" \in t.fields
               /\ t.payee_id = inv[p].payee_id /\ t.payee_id # 0
               /\ "payee_name" \notin t.fields
          ELSE /\ "payee_name" \in t.fields
               /\ t.payee_name = UpTransaction(inv[p].txId).description
               /\ "payee_id" \notin t.fields

\* ------------------------------------------------------------------- C17
\* The step issues a call of the given kind about a source account.
IssuesAccountCall(p, op, a) ==
    /\ Len(inv'[p].calls) > Len(inv[p].calls)
    /\ \E i \in (Len(inv[p].calls) + 1)..Len(inv'[p].calls) :
          inv'[p].calls[i].op = op /\ inv'[p].calls[i].key = a

\* C17 as stated: when the create-account call returns, the account cache
\* holds the reference; from then on the cache keeps answering lookups of
\* that source account with the same destination account id and transfer
\* payee id, and no account listing and no create-account call is issued
\* for it.
C17_ProvisionedAccountStaysCached ==
    [][\A a \in UpAccountIds :
         /\ \A p \in Procs :
               (inv[p].pc = "createAccount" /\ wantedAccount(inv[p]) = a
                /\ inv'[p] # inv[p]
                /\ ~inv'[p].calls[Len(inv[p].calls)].failed) =>
                  accounts'.map[a] =
                     [id |-> inv[p].resp.id,
                      payeeId |-> transfer_payee_id(inv[p].resp.id)]
         /\ accounts.map[a].id # 0 =>
               /\ accounts'.map[a] = accounts.map[a]
               /\ \A p \in Procs :
                     /\ ~IssuesAccountCall(p, "listAccounts", a)
                     /\ ~IssuesAccountCall(p, "createAccount", a)
    ]_vars

\* ------------------------------------------------------------------- C18
\* C18 as stated: whatever the interleaving of refreshes and creates, no
\* entry of either cache is ever removed, and none is replaced by a value
\* that reflects an older state of the ledger: an entry that keeps its
\* record does not lose the pairing the ledger has made for that record.
C18_EntriesNeverRemovedNorOlder ==
    [][/\ \A i \in ImportIds :
            transactions.map[i].id # 0 =>
               /\ transactions'.map[i].id # 0
               /\ (transactions'.map[i].id = transactions.map[i].id
                   /\ transactions.map[i].transfer_transaction_id # 0) =>
                     transactions'.map[i].transfer_transaction_id # 0
       /\ \A a \in UpAccountIds :
            accounts.map[a].id # 0 => accounts'.map[a].id # 0
    ]_vars

\* ------------------------------------------------------------------- C19
\* The step takes the answer of the call invocation p waits for, and the
\* call succeeded.
ReturnsOk(p, pc) ==
    /\ inv[p].pc = pc
    /\ inv'[p] # inv[p]
    /\ ~inv'[p].calls[Len(inv[p].calls)].failed

Failed(r) == r.pc = "done" /\ r.status = 500

\* The account listings an invocation issued for a source account.
AccountListings(r, a) ==
    {i \in CallsOf(r, "listAccounts") : r.calls[i].key = a}

\* C19: a lookup of a key the cache holds issues no listing and leaves the
\* cursor as it is; a lookup of a key it lacks issues exactly one listing,
\* applies the entries listed, and answers with the entry if the key is
\* there now, and with nothing otherwise, which is no failure: the
\* invocation goes on to create what is missing.  Both caches.
C19_LookupRefreshesOnlyOnMiss ==
    [][\A p \in Procs :
         \* the lookup of the import id
         /\ (inv[p].pc = "getAccount" /\ LookedUp(inv'[p])) =>
               IF transactions.map[inv'[p].importId].id # 0
               THEN /\ CallsOf(inv'[p], "listTransactions") = {}
                    /\ transactions' = transactions
                    /\ inv'[p].ynabTransactionId =
                          transactions.map[inv'[p].importId]
               ELSE /\ Cardinality(CallsOf(inv'[p], "listTransactions")) = 1
                    /\ inv'[p].pc = "listTransactions"
         /\ ReturnsOk(p, "listTransactions") =>
               /\ \A e \in inv[p].resp.transactions :
                     e.import_id # <<>> =>
                        transactions'.map[e.import_id].id # 0
               /\ inv'[p].ynabTransactionId =
                     transactions'.map[inv[p].importId]
               /\ ~Failed(inv'[p])
               /\ Cardinality(CallsOf(inv'[p], "listTransactions")) = 1
         /\ (transactions'.lastKnowledgeOfServer
                 # transactions.lastKnowledgeOfServer
             \/ transactions'.sinceDate # transactions.sinceDate) =>
               \E q \in Procs : ReturnsOk(q, "listTransactions")
         \* the lookup of a destination account
         /\ \A a \in UpAccountIds :
               IssuesAccountCall(p, "listAccounts", a) =>
                  /\ accounts'.map[a].id = 0
                  /\ Cardinality(AccountListings(inv'[p], a)) = 1
         /\ ReturnsOk(p, "listAccounts") =>
               LET a == wantedAccount(inv[p]) IN
               /\ \A e \in inv[p].resp.accounts :
                     NoteMatch(e.note) \in UpAccountIds =>
                        accounts'.map[NoteMatch(e.note)].id # 0
               /\ ~Failed(inv'[p])
               /\ IF accounts'.map[a].id # 0
                  THEN /\ ~IssuesAccountCall(p, "createAccount", a)
                       /\ ~IssuesAccountCall(p, "getAccount", a)
                       /\ inv[p].role = "owner" =>
                             inv'[p].ynabAccount = accounts'.map[a]
                       /\ inv[p].role = "transfer" =>
                             inv'[p].payee_id = accounts'.map[a].payeeId
                  ELSE inv'[p].pc = IF inv[p].role = "owner"
                                    THEN "createAccount" ELSE "upPrimary"
         /\ accounts'.lastKnowledgeOfServer # accounts.lastKnowledgeOfServer =>
               \E q \in Procs : ReturnsOk(q, "listAccounts")
    ]_vars

\* An invocation missed the transaction cache, listed once, did not find
\* its import id and went on; its lookup of the owner's account hit the
\* account cache and listed nothing; it submitted the transaction.
C19_Witness ==
    \E p \in Procs :
       /\ Cardinality(CallsOf(inv[p], "listTransactions")) = 1
       /\ CallsOf(inv[p], "listAccounts") = {}
       /\ CallsOf(inv[p], "createAccount") = {}
       /\ CallsOf(inv[p], "createTransaction") # {}

\* ------------------------------------------------------------------- C20
\* The fetches of the counterpart's source account an invocation issued
\* through a connection.
CounterpartFetches(r, via) ==
    {i \in CallsOf(r, "getAccount") :
        /\ r.calls[i].key = UpTransaction(r.txId).transferAccount
        /\ r.calls[i].via = via}

\* The call at position i was answered and had succeeded.
Succeeded(r, i, pc) == ~r.calls[i].failed /\ ~(i = Len(r.calls) /\ r.pc = pc)

\* C20: a counterpart account the cache lacks is fetched through the
\* primary connection; it is fetched through the secondary connection if
\* and only if that fetch failed; the destination account is created if
\* and only if one of the two fetches succeeded; when both failed the
\* invocation fails and has created no account for the counterpart, and
\* that is the only way the fetch ends without a create.
C20_SecondaryOnlyAfterPrimaryFailed ==
    \A p \in Procs :
       LET r == inv[p]
           a == UpTransaction(r.txId).transferAccount
           P == CounterpartFetches(r, "primary")
           S == CounterpartFetches(r, "secondary")
           C == AccountCreates(r, a)
           primaryFailed == \E i \in P : r.calls[i].failed
           secondaryFailed == \E i \in S : r.calls[i].failed
           primaryOk == \E i \in P : Succeeded(r, i, "upPrimary")
           secondaryOk == \E i \in S : Succeeded(r, i, "upSecondary")
       IN (r.txId # <<>> /\ IsTransfer(r.txId)) =>
            /\ Cardinality(P) <= 1 /\ Cardinality(S) <= 1
            /\ Cardinality(C) <= 1
            /\ r.pc = "upPrimary" => LastCall(r) \in {r.calls[i] : i \in P}
            /\ P # {} => \E j \in AccountListings(r, a) :
                            \A i \in P : j < i /\ ~r.calls[j].failed
            /\ S # {} <=> primaryFailed
            /\ \A i \in P, j \in S : i < j
            /\ C # {} <=> (primaryOk \/ secondaryOk)
            /\ \A i \in P \cup S, j \in C : i < j
            /\ (primaryFailed /\ secondaryFailed) => Failed(r) /\ C = {}
            /\ (P # {} /\ C = {} /\ r.pc = "done") =>
                  primaryFailed /\ secondaryFailed

\* The primary connection failed, the secondary one answered, and the
\* counterpart's destination account was created.
C20_Witness ==
    \E p \in Procs :
       /\ inv[p].txId # <<>> /\ IsTransfer(inv[p].txId)
       /\ \E i \in CounterpartFetches(inv[p], "primary") :
             inv[p].calls[i].failed
       /\ \E i \in CounterpartFetches(inv[p], "secondary") :
             Succeeded(inv[p], i, "upSecondary")
       /\ AccountCreates(inv[p],
                         UpTransaction(inv[p].txId).transferAccount) # {}

\* ------------------------------------------------------------------- C21
\* The create-account calls for a source account in the histories of the
\* invocations in flight, each named by its invocation and position.
CreatesInFlight(a) ==
    UNION {{<<p, i>> : i \in AccountCreates(inv[p], a)} : p \in Procs}

\* The destination accounts the ledger holds for a source account.
LedgerAccountsOf(a) ==
    {i \in 1..Len(ynabAccounts) : NoteMatch(ynabAccounts[i].note) = a}

\* C21 as stated: whatever the interleaving of the invocations, those that
\* overlap on a source account not known yet included, at most one
\* create-account call is issued per source account, so the ledger never
\* holds two destination accounts for one source account.
C21_OneCreateAccountPerSourceAccount ==
    \A a \in UpAccountIds :
       /\ Cardinality(CreatesInFlight(a)) <= 1
       /\ Cardinality(LedgerAccountsOf(a)) <= 1

\* ------------------------------------------------------------------- C22
\* No listing of transactions is awaited.
NoRefreshInFlight == \A p \in Procs : inv[p].pc # "listTransactions"

\* With no refresh in flight and a window remembered, the transaction
\* cache has an entry for every ledger transaction with an import id that
\* is dated in the window and was last changed no later than the
\* remembered change token.
CacheCoversWindow ==
    (NoRefreshInFlight /\ transactions.sinceDate # NoDate) =>
       \A i \in 1..Len(ynabTransactions) :
          (/\ ynabTransactions[i].import_id # <<>>
           /\ ynabTransactions[i].date >= transactions.sinceDate
           /\ ynabTransactions[i].k <= transactions.lastKnowledgeOfServer) =>
             transactions.map[ynabTransactions[i].import_id].id # 0

\* C22 as stated: after any sequence and any interleaving of refreshes the
\* transaction cache covers its window as of its change token, and the
\* change token of neither cache ever decreases.
C22_CacheCoversWindowAndTokensGrow ==
    [][/\ CacheCoversWindow'
       /\ transactions'.lastKnowledgeOfServer
             >= transactions.lastKnowledgeOfServer
       /\ accounts'.lastKnowledgeOfServer >= accounts.lastKnowledgeOfServer
    ]_vars

====
